---- MODULE Spec2Model ----
(***************************************************************************)
(* The request-handling core of the Todo API (src/src/app.js): the         *)
(* in-memory store (todos, nextId), the middleware pipeline (JSON body     *)
(* parser, correlation-id middleware, routes, 404 handler, error handler)  *)
(* and the seven routes.  In Spec and SpecEdge one action handles one       *)
(* request to completion, as a client that waits for each response sees    *)
(* it.  SpecLoop is the event loop with several requests in flight: a      *)
(* request arrives, is dispatched in one callback, /metrics resumes after   *)
(* its await, the 'finish' callback runs, SIGTERM ends the process.         *)
(***************************************************************************)
EXTENDS Integers, Sequences, FiniteSets, Bags, TLC

VARIABLES
    todos,      \* the list `todos` of app.js:10
    nextId,     \* the counter `nextId` of app.js:11
    req,        \* the request answered last
    res,        \* the response sent for it
    logged,     \* the log entries written by the last step
    observed,   \* the metric observations made by the last step
    proc,       \* the process: "running", "exited" or "crashed"
    conns,      \* the bag of requests in flight, one per open connection
    issued,     \* history: the ids assigned so far, in the order assigned
    removed     \* history: the ids whose DELETE returned 200

vars ==
    <<todos, nextId, req, res, logged, observed, proc, conns, issued, removed>>

\* Bound on the number of records created in one run.
MaxIssued == 2

\* The number of connections that can have a request in flight at once.
MaxConns == 2

-----------------------------------------------------------------------------
(* JSON values, as express.json() hands them to the handlers.  A string is *)
(* a sequence of one-character strings, so that trim() and parseInt() can  *)
(* be computed as JavaScript computes them.                                *)

Undefined == [t |-> "undefined", s |-> <<>>, n |-> 0, b |-> FALSE]
Null      == [t |-> "null",      s |-> <<>>, n |-> 0, b |-> FALSE]
Obj       == [t |-> "object",    s |-> <<>>, n |-> 0, b |-> FALSE]
Bool(b)   == [t |-> "boolean",   s |-> <<>>, n |-> 0, b |-> b]
Num(n)    == [t |-> "number",    s |-> <<>>, n |-> n, b |-> FALSE]
Str(s)    == [t |-> "string",    s |-> s,    n |-> 0, b |-> FALSE]

\* JavaScript truthiness, as `!title` of app.js:76 uses it.
Truthy(v) ==
    CASE v.t = "undefined" -> FALSE
      [] v.t = "null"      -> FALSE
      [] v.t = "boolean"   -> v.b
      [] v.t = "number"    -> v.n # 0
      [] v.t = "string"    -> v.s # <<>>
      [] OTHER             -> TRUE

IsWhitespace(c) == c \in {" ", "\t"}

RECURSIVE TrimStart(_)
TrimStart(s) ==
    IF s # <<>> /\ IsWhitespace(Head(s)) THEN TrimStart(Tail(s)) ELSE s

RECURSIVE TrimEnd(_)
TrimEnd(s) ==
    IF s # <<>> /\ IsWhitespace(s[Len(s)])
    THEN TrimEnd(SubSeq(s, 1, Len(s) - 1))
    ELSE s

\* String.prototype.trim, as title.trim() of app.js:76 and app.js:82.
Trim(s) == TrimEnd(TrimStart(s))

-----------------------------------------------------------------------------
(* parseInt(req.params.id) of app.js:68, 94, 107: leading whitespace is    *)
(* skipped, a sign is read, a 0x prefix selects radix 16, then the longest *)
(* prefix of digits is read; no digit at all gives NaN.                    *)

NaN == [nan |-> TRUE, val |-> 0]
Numeric(n) == [nan |-> FALSE, val |-> n]

DigitVal(c) ==
    CASE c = "0" -> 0 [] c = "1" -> 1 [] c = "2" -> 2 [] c = "3" -> 3
      [] c = "4" -> 4 [] c = "5" -> 5 [] c = "6" -> 6 [] c = "7" -> 7
      [] c = "8" -> 8 [] c = "9" -> 9 [] c = "a" -> 10 [] c = "b" -> 11
      [] OTHER -> 99

RECURSIVE DigitPrefix(_, _)
DigitPrefix(s, radix) ==
    IF s # <<>> /\ DigitVal(Head(s)) < radix
    THEN <<Head(s)>> \o DigitPrefix(Tail(s), radix)
    ELSE <<>>

RECURSIVE DigitsValue(_, _)
DigitsValue(ds, radix) ==
    IF ds = <<>> THEN 0
    ELSE DigitsValue(SubSeq(ds, 1, Len(ds) - 1), radix) * radix
         + DigitVal(ds[Len(ds)])

parseInt(str) ==
    LET s0    == TrimStart(str)
        neg   == s0 # <<>> /\ Head(s0) = "-"
        s1    == IF s0 # <<>> /\ Head(s0) \in {"-", "+"} THEN Tail(s0) ELSE s0
        hex   == Len(s1) >= 2 /\ s1[1] = "0" /\ s1[2] \in {"x", "X"}
        radix == IF hex THEN 16 ELSE 10
        s2    == IF hex THEN SubSeq(s1, 3, Len(s1)) ELSE s1
        ds    == DigitPrefix(s2, radix)
    IN  IF ds = <<>> THEN NaN
        ELSE Numeric(IF neg THEN 0 - DigitsValue(ds, radix)
                          ELSE DigitsValue(ds, radix))

\* `t.id === parseInt(...)`: NaN equals nothing.
StrictEq(id, p) == ~p.nan /\ p.val = id

RECURSIVE FindFrom(_, _, _)
FindFrom(ts, p, i) ==
    IF i > Len(ts) THEN 0
    ELSE IF StrictEq(ts[i].id, p) THEN i
    ELSE FindFrom(ts, p, i + 1)

\* Variant of FindIndex: the id taken as the record's position, todos[id - 1].
FindByPosition(ts, p) ==
    IF ~p.nan /\ p.val \in 1..Len(ts) THEN p.val ELSE 0

\* todos.find / todos.findIndex with t => t.id === p (app.js:68, 94, 107):
\* the 1-based index of the first match; 0 stands for no match.
FindIndex(ts, p) == FindFrom(ts, p, 1)

\* The decimal rendering of an id, as a client puts it in the path.
RECURSIVE Decimal(_)
Decimal(n) ==
    LET d == <<"0", "1", "2", "3", "4", "5", "6", "7", "8", "9">>
    IN  IF n < 10 THEN <<d[n + 1]>> ELSE Decimal(n \div 10) \o <<d[(n % 10) + 1]>>

-----------------------------------------------------------------------------
(* Requests.  A request is its method, its path (the route pattern it      *)
(* matches and the :id segment), its headers, and its JSON body.           *)

CorrelationHeader == "X-Correlation-ID"

EmptyObject == [title |-> Undefined, completed |-> Undefined]
Body(title, completed) == [title |-> title, completed |-> completed]

Request(method, path, seg, headers, json, body) ==
    [method |-> method, path |-> path, seg |-> seg, headers |-> headers,
     json |-> json, body |-> body]

NoRequest == Request("", "", <<>>, {}, "ok", EmptyObject)

\* req.headers['x-correlation-id'] (app.js:36); "" when the header is absent
\* (undefined and "" are both falsy there).
HeaderValue(headers) ==
    IF \E h \in headers : h[1] = CorrelationHeader
    THEN (CHOOSE h \in headers : h[1] = CorrelationHeader)[2]
    ELSE ""

-----------------------------------------------------------------------------
(* Responses and log entries.                                              *)

EmptyBody ==
    [error |-> "", message |-> "", status |-> "", timestamp |-> "",
     text |-> "", todo |-> <<>>, todos |-> <<>>, count |-> -1]

ErrorBody(msg)   == [EmptyBody EXCEPT !.error = msg]
TodoBody(todo)   == [EmptyBody EXCEPT !.todo = <<todo>>]
ListBody(ts)     == [EmptyBody EXCEPT !.todos = ts, !.count = Len(ts)]
DeletedBody(todo) ==
    [EmptyBody EXCEPT !.message = "Todo deleted successfully", !.todo = <<todo>>]

Response(status, headers, body) ==
    [status |-> status, headers |-> headers, body |-> body]

NoResponse == Response(0, {}, EmptyBody)

\* One logger.info / logger.error call: level, message, the correlationId
\* member (<<>> when it is undefined) and the todoId member (0 when absent).
LogEntry(level, msg, cid, todoId) ==
    [level |-> level, msg |-> msg, cid |-> cid, todoId |-> todoId]

\* httpRequestCounter.inc (app.js:43): one increment of http_requests_total
\* labelled with the method, req.path (the route's path and its :id segment)
\* and the status code.
CounterInc(r, status) ==
    [metric |-> "http_requests_total", method |-> r.method, path |-> r.path,
     seg |-> r.seg, status |-> <<status>>]

\* httpRequestDuration.observe (app.js:44): one observation of
\* http_request_duration_seconds labelled with the method and req.path; the
\* histogram has no status label.
DurationObserve(r) ==
    [metric |-> "http_request_duration_seconds", method |-> r.method,
     path |-> r.path, seg |-> r.seg, status |-> <<>>]

-----------------------------------------------------------------------------
(* The route handlers, as functions of the store (ts = todos, nid =        *)
(* nextId) and the request.  An outcome is the store the handler leaves,   *)
(* the response it sends (or the exception it throws), the log entries it  *)
(* writes, and the ids it assigned and removed.                            *)

Outcome(ts, nid, status, body, logs, newIds, goneIds) ==
    [todos |-> ts, nextId |-> nid, status |-> status, body |-> body,
     logs |-> logs, newIds |-> newIds, goneIds |-> goneIds, threw |-> FALSE]

\* An exception thrown out of a handler: Express passes it to the error
\* handler; the store is as the handler left it before the throw.
Throws(ts, nid) ==
    [Outcome(ts, nid, 0, EmptyBody, <<>>, <<>>, {}) EXCEPT !.threw = TRUE]

\* Variant of NotFound: res.json(...) without res.status(404).
NotFoundNoStatus(ts, nid) ==
    Outcome(ts, nid, 200, ErrorBody("Todo not found"), <<>>, <<>>, {})

\* `return res.status(404).json({ error: 'Todo not found' })` (app.js:69, 95,
\* 108).
NotFound(ts, nid) ==
    Outcome(ts, nid, 404, ErrorBody("Todo not found"), <<>>, <<>>, {})

\* Variant of Removed: todos.splice(index), every element from index on
\* removed.
RemovedFrom(ts, i) == SubSeq(ts, 1, i - 1)

\* Variant of Removed: todos.pop(), the last element removed.
Popped(ts, i) == SubSeq(ts, 1, Len(ts) - 1)

\* todos.splice(index, 1) (app.js:110): the list without its i-th element.
Removed(ts, i) == SubSeq(ts, 1, i - 1) \o SubSeq(ts, i + 1, Len(ts))

HealthOutcome(ts, nid, now) ==
    Outcome(ts, nid, 200,
            [EmptyBody EXCEPT !.status = "healthy", !.timestamp = now],
            <<>>, <<>>, {})

MetricsOutcome(ts, nid) ==
    Outcome(ts, nid, 200, [EmptyBody EXCEPT !.text = "metrics"], <<>>, <<>>, {})

ListOutcome(ts, nid) ==
    Outcome(ts, nid, 200, ListBody(ts), <<>>, <<>>, {})

GetOutcome(ts, nid, seg) ==
    LET i == FindIndex(ts, parseInt(seg))
    IN  IF i = 0 THEN NotFound(ts, nid)
        ELSE Outcome(ts, nid, 200, TodoBody(ts[i]), <<>>, <<>>, {})

\* Variant of TitleCheck: `!title` alone.
TitleCheckNoTrim(title) ==
    IF ~Truthy(title) THEN "required" ELSE "ok"

\* The guard of app.js:76, `!title || title.trim() === ''`: "required" when
\* it holds, "throws" when title is truthy and has no trim method, else "ok".
TitleCheck(title) ==
    IF ~Truthy(title) THEN "required"
    ELSE IF title.t # "string" THEN "throws"
    ELSE IF Trim(title.s) = <<>> THEN "required"
    ELSE "ok"

\* Variant of AssignId: `id: todos.length + 1`.
AssignIdFromLength(ts, nid) == Len(ts) + 1

\* `id: nextId++` (app.js:81): the id the new record gets.
AssignId(ts, nid) == nid

\* Variant of NewTodo: `title` stored as sent, not title.trim().
NewTodoUntrimmed(id, title, now) ==
    [id |-> id, title |-> title, completed |-> Bool(FALSE), createdAt |-> now]

\* The record built at app.js:80-85.
NewTodo(id, title, now) ==
    [id |-> id, title |-> Str(Trim(title.s)), completed |-> Bool(FALSE),
     createdAt |-> now]

\* Variant of Pushed: todos.unshift(todo).
Unshifted(ts, todo) == <<todo>> \o ts

\* todos.push(todo) (app.js:87).
Pushed(ts, todo) == Append(ts, todo)

\* Variant of PostOutcome: nextId++ evaluated before the title is checked,
\* so a rejected POST uses an id up.
PostOutcomeEagerId(ts, nid, body, now) ==
    LET check == TitleCheck(body.title)
        todo  == NewTodo(AssignId(ts, nid), body.title, now)
    IN  CASE check = "required" ->
               Outcome(ts, nid + 1, 400, ErrorBody("Title is required"),
                       <<>>, <<>>, {})
          [] check = "throws" -> Throws(ts, nid + 1)
          [] OTHER ->
               Outcome(Pushed(ts, todo), nid + 1, 201, TodoBody(todo),
                       <<[msg |-> "Todo created", todoId |-> todo.id]>>,
                       <<todo.id>>, {})

\* The POST handler (app.js:74-90).
PostOutcome(ts, nid, body, now) ==
    LET check == TitleCheck(body.title)
        todo  == NewTodo(AssignId(ts, nid), body.title, now)
    IN  CASE check = "required" ->
               Outcome(ts, nid, 400, ErrorBody("Title is required"),
                       <<>>, <<>>, {})
          [] check = "throws" -> Throws(ts, nid)
          [] OTHER ->
               Outcome(Pushed(ts, todo), nid + 1, 201, TodoBody(todo),
                       <<[msg |-> "Todo created", todoId |-> todo.id]>>,
                       <<todo.id>>, {})

\* Variant of Patched: both fields assigned without the undefined tests.
PatchedAlways(todo, body) ==
    [todo EXCEPT !.title = body.title, !.completed = body.completed]

\* app.js:97-99: a member of the body that is not undefined replaces the
\* record's field.
Patched(todo, body) ==
    LET t1 == IF body.title # Undefined
              THEN [todo EXCEPT !.title = body.title] ELSE todo
    IN  IF body.completed # Undefined
        THEN [t1 EXCEPT !.completed = body.completed] ELSE t1

\* Variant of PutOutcome: a copy of the record is patched and returned, the
\* list keeps the old one.
PutOutcomeOnCopy(ts, nid, seg, body) ==
    LET i == FindIndex(ts, parseInt(seg))
    IN  IF i = 0 THEN NotFound(ts, nid)
        ELSE LET todo == Patched(ts[i], body)
             IN  Outcome(ts, nid, 200, TodoBody(todo),
                         <<[msg |-> "Todo updated", todoId |-> todo.id]>>,
                         <<>>, {})

\* The PUT handler (app.js:93-103).
PutOutcome(ts, nid, seg, body) ==
    LET i == FindIndex(ts, parseInt(seg))
    IN  IF i = 0 THEN NotFound(ts, nid)
        ELSE LET todo == Patched(ts[i], body)
             IN  Outcome([ts EXCEPT ![i] = todo], nid, 200, TodoBody(todo),
                         <<[msg |-> "Todo updated", todoId |-> todo.id]>>,
                         <<>>, {})

DeleteOutcome(ts, nid, seg) ==
    LET i == FindIndex(ts, parseInt(seg))
    IN  IF i = 0 THEN NotFound(ts, nid)
        ELSE Outcome(Removed(ts, i), nid, 200, DeletedBody(ts[i]),
                     <<[msg |-> "Todo deleted", todoId |-> ts[i].id]>>,
                     <<>>, {ts[i].id})

\* Variant of RouteNotFoundOutcome: res.json(...) without res.status(404).
RouteNotFoundNoStatus(ts, nid) ==
    Outcome(ts, nid, 200, ErrorBody("Route not found"), <<>>, <<>>, {})

\* The 404 handler (app.js:116-118).
RouteNotFoundOutcome(ts, nid) ==
    Outcome(ts, nid, 404, ErrorBody("Route not found"), <<>>, <<>>, {})

-----------------------------------------------------------------------------
(* The middleware pipeline, in registration order: express.json()          *)
(* (app.js:14), the correlation-id middleware (app.js:35-48), the routes,  *)
(* the 404 handler (app.js:116) and the error handler (app.js:121).        *)

\* app.js:36: the inbound header if truthy, otherwise a generated id.
CorrelationId(r, gen) ==
    IF HeaderValue(r.headers) # "" THEN HeaderValue(r.headers) ELSE gen

\* The ids the middleware may generate for r, out of gens: none is generated
\* when the inbound header is used.
GenChoices(r, gens) ==
    IF HeaderValue(r.headers) # "" THEN {""} ELSE gens

\* The error handler's response (app.js:121-124); it keeps the headers set
\* on the response so far.
ErrorResponse(headers) ==
    Response(500, headers, ErrorBody("Internal server error"))

\* The response to a request the correlation middleware and then a route
\* handler with outcome out have worked on; cid is its correlation id.
Sent(cid, out) ==
    IF out.threw THEN ErrorResponse({<<CorrelationHeader, cid>>})
    ELSE Response(out.status, {<<CorrelationHeader, cid>>}, out.body)

\* The log entries written on the way: the handler's own (app.js:87), or the
\* error handler's (app.js:122) when the handler threw.
Entries(cid, out) ==
    IF out.threw
    THEN <<LogEntry("error", "Unhandled error", <<cid>>, 0)>>
    ELSE [k \in 1..Len(out.logs) |->
            LogEntry("info", out.logs[k].msg, <<cid>>, out.logs[k].todoId)]

\* The metric observations of the 'finish' callback (app.js:41-46).
FinishObserved(r, status) == <<CounterInc(r, status), DurationObserve(r)>>

\* The log entry of the 'finish' callback (app.js:45).
FinishLogged(cid) == <<LogEntry("info", "HTTP Request", <<cid>>, 0)>>

\* A request whose body express.json() parsed: the correlation middleware
\* runs, then the route handler whose outcome is out, then the 'finish'
\* callback once the response is written.
Served(r, gen, out) ==
    LET cid  == CorrelationId(r, gen)
        sent == Sent(cid, out)
    IN  /\ req' = r
        /\ todos' = out.todos
        /\ nextId' = out.nextId
        /\ res' = sent
        /\ logged' = Entries(cid, out) \o FinishLogged(cid)
        /\ observed' = FinishObserved(r, sent.status)
        /\ issued' = issued \o out.newIds
        /\ removed' = removed \cup out.goneIds
        /\ UNCHANGED <<proc, conns>>

\* A request whose JSON body express.json() rejects: next(err) skips every
\* middleware and route up to the error handler; the correlation middleware
\* never runs, so req.correlationId is undefined, no header is set and no
\* 'finish' callback is registered.
Rejected(r) ==
    /\ req' = r
    /\ res' = ErrorResponse({})
    /\ logged' = <<LogEntry("error", "Unhandled error", <<>>, 0)>>
    /\ observed' = <<>>
    /\ UNCHANGED <<todos, nextId, issued, removed, proc, conns>>

\* The router (app.js:51-118): the outcome of the first route that matches
\* the method and path of r, of the 404 handler when none does.
Routed(r, ts, nid, now) ==
    LET mp == <<r.method, r.path>>
    IN  CASE mp = <<"GET", "/health">>       -> HealthOutcome(ts, nid, now)
          [] mp = <<"GET", "/metrics">>      -> MetricsOutcome(ts, nid)
          [] mp = <<"GET", "/todos">>        -> ListOutcome(ts, nid)
          [] mp = <<"GET", "/todos/:id">>    -> GetOutcome(ts, nid, r.seg)
          [] mp = <<"POST", "/todos">> ->
               PostOutcome(ts, nid, r.body, now)
          [] mp = <<"PUT", "/todos/:id">> ->
               PutOutcome(ts, nid, r.seg, r.body)
          [] mp = <<"DELETE", "/todos/:id">> -> DeleteOutcome(ts, nid, r.seg)
          [] OTHER                           -> RouteNotFoundOutcome(ts, nid)

\* A request in flight: where it stands ("accepted" once received,
\* "awaiting" while /metrics is suspended at its await, "answered" once the
\* response is sent and the 'finish' callback is pending), the request, its
\* correlation id and the status sent.
Conn(stage, r, cid, status) ==
    [stage |-> stage, r |-> r, cid |-> cid, status |-> status]

\* The requests in flight with k gone.
Without(bag, k) == bag (-) SetToBag({k})

\* The requests in flight with k replaced by k2.
Moved(bag, k, k2) == Without(bag, k) (+) SetToBag({k2})

\* Variant of SigtermHandler: the handler logs and returns.
SigtermLogOnly ==
    [logs |-> <<LogEntry("info", "SIGTERM received, shutting down gracefully",
                         <<>>, 0)>>,
     proc |-> "running"]

\* The SIGTERM listener (app.js:134-137): one log entry, then
\* process.exit(0).
SigtermHandler ==
    [logs |-> <<LogEntry("info", "SIGTERM received, shutting down gracefully",
                         <<>>, 0)>>,
     proc |-> "exited"]

\* What becomes of a rejection of the promise returned by the async
\* /metrics handler (app.js:56-59), which has no try/catch: the router
\* passes it to the error handler ("forwarded", Express 5), or nothing
\* handles it and Node ends the process on the unhandled rejection
\* ("unhandled", Express 4 on the node:18 image).  The Express version is
\* not fixed by the sources.
AsyncRejection == {"forwarded", "unhandled"}

-----------------------------------------------------------------------------
(* The requests a run is driven with.  in.headers are the inbound header   *)
(* sets, in.gens the ids the middleware may generate (app.js:36), in.times *)
(* the values new Date().toISOString() may yield (app.js:52, 84),          *)
(* in.posts and in.puts the JSON bodies of POST and PUT, in.segs the :id   *)
(* path segments, in.unmatched the method and path pairs no route          *)
(* matches, in.malformed the requests whose JSON body does not parse.      *)

ClientId == {<<CorrelationHeader, "client-id">>}

\* An X-Correlation-ID header with an empty value.
EmptyId == {<<CorrelationHeader, "">>}

T1 == "2024-01-01T00:00:00.000Z"

\* The decimal renderings of the ids a run can issue, and of one it cannot.
IssuableSegments == { Decimal(i) : i \in 1..(MaxIssued + 1) } \cup { <<"9">> }

\* Store-centred runs: every request carries the same correlation header and
\* the clock reads the same instant; POST and PUT carry a JSON object.
StoreInputs ==
    [ headers   |-> { ClientId },
      gens      |-> { "1700000000000-k3j9x0a1b" },
      times     |-> { T1 },
      posts     |-> { EmptyObject,
                      Body(Str(<<>>), Undefined),
                      Body(Str(<<" ">>), Undefined),
                      Body(Num(7), Undefined),
                      Body(Str(<<" ", "a", " ">>), Bool(TRUE)) },
      puts      |-> { EmptyObject,
                      Body(Str(<<"b">>), Undefined),
                      Body(Undefined, Bool(TRUE)),
                      Body(Str(<<>>), Bool(FALSE)) },
      segs      |-> IssuableSegments,
      unmatched |-> { <<"GET", "/non-existent">>, <<"DELETE", "/todos">> },
      malformed |-> { <<"POST", "/todos", <<>> >> } ]

\* Correlation-centred runs: requests with the header, with an empty one and
\* without it, two ids the generator may yield (the same one twice when
\* Date.now() and Math.random() repeat), and PUT bodies whose completed is
\* not a boolean; :id segments that are a stored id followed by a letter.
EdgeInputs ==
    [ headers   |-> { {}, EmptyId, ClientId },
      gens      |-> { "1700000000000-k3j9x0a1b", "1700000000001-0" },
      times     |-> { T1 },
      posts     |-> { Body(Str(<<"a">>), Undefined) },
      puts      |-> { Body(Undefined, Null),
                      Body(Undefined, Str(<<"y", "e", "s">>)) },
      segs      |-> { Decimal(1), Decimal(1) \o <<"a">> },
      unmatched |-> { <<"GET", "/non-existent">> },
      malformed |-> { <<"POST", "/todos", <<>> >> } ]

\* Event-loop runs: the requests clients may have in flight together, and
\* the ways register.metrics() may settle.
LoopInputs ==
    [ gens     |-> { "1700000000000-k3j9x0a1b" },
      times    |-> { T1 },
      requests |->
        { Request("POST", "/todos", <<>>, ClientId, "ok",
                  Body(Str(<<"a">>), Undefined)),
          Request("PUT", "/todos/:id", Decimal(1), ClientId, "ok",
                  Body(Undefined, Bool(TRUE))),
          Request("DELETE", "/todos/:id", Decimal(1), ClientId, "ok",
                  EmptyObject),
          Request("GET", "/metrics", <<>>, ClientId, "ok", EmptyObject),
          Request("POST", "/todos", <<>>, ClientId, "malformed",
                  EmptyObject) },
      scrapes  |-> { "resolved", "rejected" } ]

-----------------------------------------------------------------------------
(* The actions: one per route, one for unmatched routes, one for bodies    *)
(* the JSON parser rejects.                                                *)

Init ==
    /\ todos = <<>>
    /\ nextId = 1
    /\ req = NoRequest
    /\ res = NoResponse
    /\ logged = <<>>
    /\ observed = <<>>
    /\ proc = "running"
    /\ conns = EmptyBag
    /\ issued = <<>>
    /\ removed = {}

Health(in) ==
    \E h \in in.headers, now \in in.times :
        LET r == Request("GET", "/health", <<>>, h, "ok", EmptyObject)
        IN  \E gen \in GenChoices(r, in.gens) :
                Served(r, gen, HealthOutcome(todos, nextId, now))

Metrics(in) ==
    \E h \in in.headers :
        LET r == Request("GET", "/metrics", <<>>, h, "ok", EmptyObject)
        IN  \E gen \in GenChoices(r, in.gens) :
                Served(r, gen, MetricsOutcome(todos, nextId))

ListTodos(in) ==
    \E h \in in.headers :
        LET r == Request("GET", "/todos", <<>>, h, "ok", EmptyObject)
        IN  \E gen \in GenChoices(r, in.gens) :
                Served(r, gen, ListOutcome(todos, nextId))

GetTodo(in) ==
    \E h \in in.headers, seg \in in.segs :
        LET r == Request("GET", "/todos/:id", seg, h, "ok", EmptyObject)
        IN  \E gen \in GenChoices(r, in.gens) :
                Served(r, gen, GetOutcome(todos, nextId, seg))

CreateTodo(in) ==
    \E h \in in.headers, body \in in.posts, now \in in.times :
        LET r   == Request("POST", "/todos", <<>>, h, "ok", body)
            out == PostOutcome(todos, nextId, body, now)
        IN  /\ Len(issued) + Len(out.newIds) <= MaxIssued
            /\ \E gen \in GenChoices(r, in.gens) : Served(r, gen, out)

UpdateTodo(in) ==
    \E h \in in.headers, seg \in in.segs, body \in in.puts :
        LET r == Request("PUT", "/todos/:id", seg, h, "ok", body)
        IN  \E gen \in GenChoices(r, in.gens) :
                Served(r, gen, PutOutcome(todos, nextId, seg, body))

DeleteTodo(in) ==
    \E h \in in.headers, seg \in in.segs :
        LET r == Request("DELETE", "/todos/:id", seg, h, "ok", EmptyObject)
        IN  \E gen \in GenChoices(r, in.gens) :
                Served(r, gen, DeleteOutcome(todos, nextId, seg))

RouteNotFound(in) ==
    \E h \in in.headers, mp \in in.unmatched :
        LET r == Request(mp[1], mp[2], <<>>, h, "ok", EmptyObject)
        IN  \E gen \in GenChoices(r, in.gens) :
                Served(r, gen, RouteNotFoundOutcome(todos, nextId))

BodyParseError(in) ==
    \E h \in in.headers, mp \in in.malformed :
        Rejected(Request(mp[1], mp[2], mp[3], h, "malformed", EmptyObject))

Next ==
    \/ Health(StoreInputs)
    \/ Metrics(StoreInputs)
    \/ ListTodos(StoreInputs)
    \/ GetTodo(StoreInputs)
    \/ CreateTodo(StoreInputs)
    \/ UpdateTodo(StoreInputs)
    \/ DeleteTodo(StoreInputs)
    \/ RouteNotFound(StoreInputs)
    \/ BodyParseError(StoreInputs)

Spec == Init /\ [][Next]_vars

\* The same program driven with the correlation-centred requests.
NextEdge ==
    \/ Health(EdgeInputs)
    \/ Metrics(EdgeInputs)
    \/ ListTodos(EdgeInputs)
    \/ GetTodo(EdgeInputs)
    \/ CreateTodo(EdgeInputs)
    \/ UpdateTodo(EdgeInputs)
    \/ DeleteTodo(EdgeInputs)
    \/ RouteNotFound(EdgeInputs)
    \/ BodyParseError(EdgeInputs)

SpecEdge == Init /\ [][NextEdge]_vars

-----------------------------------------------------------------------------
(* The event loop.  Each action is one callback, run to completion.        *)

\* A request arrives while a connection is free.
Arrive(in) ==
    /\ proc = "running"
    /\ BagCardinality(conns) < MaxConns
    /\ \E r \in in.requests :
          conns' = conns (+) SetToBag({Conn("accepted", r, "", 0)})
    /\ UNCHANGED <<todos, nextId, req, res, logged, observed, proc, issued,
                   removed>>

\* express.json() rejects the body of the request k: the error handler
\* answers; no 'finish' callback was registered.
RejectBody(k) ==
    /\ proc = "running"
    /\ k.stage = "accepted"
    /\ k.r.json = "malformed"
    /\ req' = k.r
    /\ res' = ErrorResponse({})
    /\ logged' = <<LogEntry("error", "Unhandled error", <<>>, 0)>>
    /\ observed' = <<>>
    /\ conns' = Without(conns, k)
    /\ UNCHANGED <<todos, nextId, proc, issued, removed>>

\* The request k passes the correlation middleware and its synchronous
\* route handler (or the 404 handler) in one callback; the response is sent
\* and the 'finish' callback is pending.
Dispatch(k, in) ==
    /\ proc = "running"
    /\ k.stage = "accepted"
    /\ k.r.json = "ok"
    /\ <<k.r.method, k.r.path>> # <<"GET", "/metrics">>
    /\ \E now \in in.times, gen \in GenChoices(k.r, in.gens) :
          LET out  == Routed(k.r, todos, nextId, now)
              cid  == CorrelationId(k.r, gen)
              sent == Sent(cid, out)
          IN  /\ Len(issued) + Len(out.newIds) <= MaxIssued
              /\ req' = k.r
              /\ todos' = out.todos
              /\ nextId' = out.nextId
              /\ res' = sent
              /\ logged' = Entries(cid, out)
              /\ observed' = <<>>
              /\ issued' = issued \o out.newIds
              /\ removed' = removed \cup out.goneIds
              /\ conns' = Moved(conns, k,
                                Conn("answered", k.r, cid, sent.status))
    /\ UNCHANGED proc

\* GET /metrics k passes the correlation middleware, sets the content type
\* and is suspended at `await register.metrics()` (app.js:58).
AwaitMetrics(k, in) ==
    /\ proc = "running"
    /\ k.stage = "accepted"
    /\ k.r.json = "ok"
    /\ <<k.r.method, k.r.path>> = <<"GET", "/metrics">>
    /\ \E gen \in GenChoices(k.r, in.gens) :
          conns' = Moved(conns, k,
                         Conn("awaiting", k.r, CorrelationId(k.r, gen), 0))
    /\ UNCHANGED <<todos, nextId, req, res, logged, observed, proc, issued,
                   removed>>

\* register.metrics() resolved: the handler of k resumes and ends the
\* response with the metrics text.
MetricsResolved(k, in) ==
    /\ proc = "running"
    /\ k.stage = "awaiting"
    /\ "resolved" \in in.scrapes
    /\ LET out  == MetricsOutcome(todos, nextId)
           sent == Sent(k.cid, out)
       IN  /\ req' = k.r
           /\ res' = sent
           /\ logged' = Entries(k.cid, out)
           /\ conns' = Moved(conns, k,
                             Conn("answered", k.r, k.cid, sent.status))
    /\ observed' = <<>>
    /\ UNCHANGED <<todos, nextId, proc, issued, removed>>

\* register.metrics() rejected and the router passes the rejection to the
\* error handler.
MetricsRejectedForwarded(k, in) ==
    /\ proc = "running"
    /\ k.stage = "awaiting"
    /\ "rejected" \in in.scrapes
    /\ "forwarded" \in AsyncRejection
    /\ LET out  == Throws(todos, nextId)
           sent == Sent(k.cid, out)
       IN  /\ req' = k.r
           /\ res' = sent
           /\ logged' = Entries(k.cid, out)
           /\ conns' = Moved(conns, k,
                             Conn("answered", k.r, k.cid, sent.status))
    /\ observed' = <<>>
    /\ UNCHANGED <<todos, nextId, proc, issued, removed>>

\* register.metrics() rejected and nothing handles the rejection: Node ends
\* the process; no request in flight is answered.
MetricsRejectedUnhandled(k, in) ==
    /\ proc = "running"
    /\ k.stage = "awaiting"
    /\ "rejected" \in in.scrapes
    /\ "unhandled" \in AsyncRejection
    /\ proc' = "crashed"
    /\ UNCHANGED <<todos, nextId, req, res, logged, observed, conns, issued,
                   removed>>

\* The 'finish' callback of the response to k (app.js:41-46).
Finish(k) ==
    /\ proc = "running"
    /\ k.stage = "answered"
    /\ logged' = FinishLogged(k.cid)
    /\ observed' = FinishObserved(k.r, k.status)
    /\ conns' = Without(conns, k)
    /\ UNCHANGED <<todos, nextId, req, res, proc, issued, removed>>

\* SIGTERM is delivered (app.js:134-137).
Sigterm ==
    /\ proc = "running"
    /\ logged' = SigtermHandler.logs
    /\ proc' = SigtermHandler.proc
    /\ observed' = <<>>
    /\ UNCHANGED <<todos, nextId, req, res, conns, issued, removed>>

NextLoop ==
    \/ Arrive(LoopInputs)
    \/ \E k \in BagToSet(conns) : RejectBody(k)
    \/ \E k \in BagToSet(conns) : Dispatch(k, LoopInputs)
    \/ \E k \in BagToSet(conns) : AwaitMetrics(k, LoopInputs)
    \/ \E k \in BagToSet(conns) : MetricsResolved(k, LoopInputs)
    \/ \E k \in BagToSet(conns) : MetricsRejectedForwarded(k, LoopInputs)
    \/ \E k \in BagToSet(conns) : MetricsRejectedUnhandled(k, LoopInputs)
    \/ \E k \in BagToSet(conns) : Finish(k)
    \/ Sigterm

SpecLoop == Init /\ [][NextLoop]_vars

-----------------------------------------------------------------------------
(* Vocabulary of the properties.                                           *)

\* s is empty or consists of whitespace only.
Blank(s) == \A k \in 1..Len(s) : IsWhitespace(s[k])

\* out is inp without its leading and trailing whitespace.
IsTrimOf(out, inp) ==
    /\ out = <<>> \/ (~IsWhitespace(out[1]) /\ ~IsWhitespace(out[Len(out)]))
    /\ \E i \in 0..Len(inp) :
          /\ i + Len(out) <= Len(inp)
          /\ Blank(SubSeq(inp, 1, i))
          /\ SubSeq(inp, i + 1, i + Len(out)) = out
          /\ Blank(SubSeq(inp, i + Len(out) + 1, Len(inp)))

\* r reached the route handlers: its body, if any, parsed.
BodyParsed(r) == r.json = "ok"

IsPost(r)   == BodyParsed(r) /\ r.method = "POST"   /\ r.path = "/todos"
IsList(r)   == BodyParsed(r) /\ r.method = "GET"    /\ r.path = "/todos"
IsGet(r)    == BodyParsed(r) /\ r.method = "GET"    /\ r.path = "/todos/:id"
IsPut(r)    == BodyParsed(r) /\ r.method = "PUT"    /\ r.path = "/todos/:id"
IsDelete(r) == BodyParsed(r) /\ r.method = "DELETE" /\ r.path = "/todos/:id"

\* r addresses /todos/:id with the decimal rendering of id.
Addresses(r, id) == (IsGet(r) \/ IsPut(r) \/ IsDelete(r)) /\ r.seg = Decimal(id)

Ids(ts) == { ts[k].id : k \in 1..Len(ts) }
Range(q) == { q[k] : k \in 1..Len(q) }

\* The method and path pairs the application defines a route for
\* (app.js:51, 56, 62, 67, 74, 93, 106).
Routes ==
    { <<"GET", "/health">>, <<"GET", "/metrics">>, <<"GET", "/todos">>,
      <<"GET", "/todos/:id">>, <<"POST", "/todos">>, <<"PUT", "/todos/:id">>,
      <<"DELETE", "/todos/:id">> }

\* r is a request that reached the routes and matches none of them.
IsUnmatched(r) ==
    BodyParsed(r) /\ r.method # "" /\ <<r.method, r.path>> \notin Routes

\* The value of the response's X-Correlation-ID header, <<>> if it has none.
ResponseId(rs) ==
    IF \E h \in rs.headers : h[1] = CorrelationHeader
    THEN <<(CHOOSE h \in rs.headers : h[1] = CorrelationHeader)[2]>>
    ELSE <<>>

\* r carries an X-Correlation-ID header.
Supplies(r) == \E h \in r.headers : h[1] = CorrelationHeader

\* The title of r's body is a string that is not blank.
HasTitle(r) == r.body.title.t = "string" /\ ~Blank(r.body.title.s)

\* The title of r's body is absent, empty or whitespace only.
LacksTitle(r) ==
    \/ r.body.title = Undefined
    \/ r.body.title.t = "string" /\ Blank(r.body.title.s)

\* The number of requests in flight that stand at stage.
InStage(bag, stage) ==
    BagCardinality([k \in { x \in BagToSet(bag) : x.stage = stage } |-> bag[k]])

\* The step is the callback that dispatches one request to its route
\* handler and sends its response.
Dispatched ==
    /\ InStage(conns', "accepted") = InStage(conns, "accepted") - 1
    /\ InStage(conns', "answered") = InStage(conns, "answered") + 1

\* The positions of ts whose record r addresses.
Hits(r, ts) == { k \in 1..Len(ts) : r.seg = Decimal(ts[k].id) }

\* todo with the members of body that are present written over its fields.
Overwritten(todo, body) ==
    [todo EXCEPT
       !.title = IF body.title = Undefined THEN @ ELSE body.title,
       !.completed = IF body.completed = Undefined THEN @ ELSE body.completed]

\* Store ts2, counter nid2 and response rs are what request r, executed
\* alone on store ts with counter nid, leaves and returns.
SerialStep(r, ts, nid, ts2, nid2, rs) ==
    IF IsPost(r) /\ HasTitle(r)
    THEN /\ nid2 = nid + 1
         /\ Len(ts2) = Len(ts) + 1
         /\ SubSeq(ts2, 1, Len(ts)) = ts
         /\ ts2[Len(ts2)].id = nid
         /\ IsTrimOf(ts2[Len(ts2)].title.s, r.body.title.s)
         /\ ts2[Len(ts2)].completed = Bool(FALSE)
         /\ rs.status = 201
         /\ rs.body.todo = <<ts2[Len(ts2)]>>
    ELSE IF (IsGet(r) \/ IsPut(r) \/ IsDelete(r)) /\ Hits(r, ts) = {}
    THEN ts2 = ts /\ nid2 = nid /\ rs.status = 404
    ELSE IF IsGet(r) \/ IsPut(r) \/ IsDelete(r)
    THEN LET k == CHOOSE x \in Hits(r, ts) : TRUE
         IN  /\ nid2 = nid
             /\ rs.status = 200
             /\ IsGet(r) => ts2 = ts /\ rs.body.todo = <<ts[k]>>
             /\ IsPut(r) =>
                   /\ ts2 = [ts EXCEPT ![k] = Overwritten(ts[k], r.body)]
                   /\ rs.body.todo = <<ts2[k]>>
             /\ IsDelete(r) =>
                   /\ ts2 = SubSeq(ts, 1, k - 1) \o SubSeq(ts, k + 1, Len(ts))
                   /\ rs.body.todo = <<ts[k]>>
    ELSE ts2 = ts /\ nid2 = nid

\* The SIGTERM listener has logged its message.
SigtermLogged ==
    \E k \in 1..Len(logged) :
        logged[k].msg = "SIGTERM received, shutting down gracefully"

-----------------------------------------------------------------------------
(* The properties.                                                         *)

\* C1: a POST /todos whose title is non-empty after trimming answers 201 and
\* appends exactly one record, with the trimmed title, completed = false and
\* an id greater than every id issued before, deleted records included.
C1_PostCreates ==
    [][ (IsPost(req') /\ HasTitle(req')) =>
          /\ res'.status = 201
          /\ Len(todos') = Len(todos) + 1
          /\ SubSeq(todos', 1, Len(todos)) = todos
          /\ LET new == todos'[Len(todos')]
             IN  /\ new.title.t = "string"
                 /\ IsTrimOf(new.title.s, req'.body.title.s)
                 /\ new.completed = Bool(FALSE)
                 /\ \A id \in Range(issued) : new.id > id
                 /\ res'.body.todo = <<new>> ]_vars

\* C1 witness: a POST with a padded title was answered 201 after a delete.
C1_Witness ==
    /\ IsPost(req) /\ res.status = 201
    /\ req.body.title.s # Trim(req.body.title.s)
    /\ removed # {}

\* C2: a POST /todos with no title, an empty title or a whitespace-only
\* title answers 400 "Title is required" and leaves todos and nextId as
\* they were.
C2_PostRejects ==
    [][ (IsPost(req') /\ LacksTitle(req')) =>
          /\ res'.status = 400
          /\ res'.body.error = "Title is required"
          /\ todos' = todos
          /\ nextId' = nextId ]_vars

\* C2 witness: a whitespace-only title was rejected while a record is stored.
C2_Witness ==
    /\ IsPost(req) /\ res.status = 400
    /\ req.body.title.t = "string" /\ req.body.title.s # <<>>
    /\ todos # <<>>

\* C3: no two stored records share an id, and no id is assigned twice, also
\* after the record that held it was deleted.
C3_IdsUnique ==
    /\ \A i, j \in 1..Len(todos) : i # j => todos[i].id # todos[j].id
    /\ \A i, j \in 1..Len(issued) : i # j => issued[i] # issued[j]

\* C3 witness: a record was created after an earlier one was deleted.
C3_Witness ==
    \E gone \in removed : \E kept \in Ids(todos) : kept > gone

\* C4: the title of every stored record is a string that is neither empty
\* nor whitespace only.
C4_TitleNeverBlank ==
    \A k \in 1..Len(todos) :
        todos[k].title.t = "string" /\ ~Blank(todos[k].title.s)

\* C5: a PUT /todos/:id on a stored record replaces the fields the body
\* carries and nothing else: an absent title or completed keeps the stored
\* one, and the record's id and createdAt, every other record, the order of
\* the list and nextId are as before.
C5_PutFrame ==
    [][ \A k \in 1..Len(todos) :
          (IsPut(req') /\ req'.seg = Decimal(todos[k].id)) =>
            /\ res'.status = 200
            /\ Len(todos') = Len(todos)
            /\ \A j \in 1..Len(todos) : j # k => todos'[j] = todos[j]
            /\ todos'[k].id = todos[k].id
            /\ todos'[k].createdAt = todos[k].createdAt
            /\ todos'[k].title =
                 IF req'.body.title = Undefined
                 THEN todos[k].title ELSE req'.body.title
            /\ todos'[k].completed =
                 IF req'.body.completed = Undefined
                 THEN todos[k].completed ELSE req'.body.completed
            /\ nextId' = nextId ]_vars

\* C5 witness: a PUT carrying only completed was answered 200 with another
\* record in the store.
C5_Witness ==
    /\ IsPut(req) /\ res.status = 200
    /\ req.body.title = Undefined /\ req.body.completed # Undefined
    /\ Len(todos) >= 2

\* C6: once DELETE /todos/:id has answered 200 for an id, every later GET,
\* PUT and DELETE on that id answers 404.
C6_DeletedStaysGone ==
    [][ \A id \in removed : Addresses(req', id) => res'.status = 404 ]_vars

\* C6 witness: a GET on a deleted id was answered 404 while a record created
\* later is stored.
C6_Witness ==
    \E gone \in removed :
        /\ IsGet(req) /\ req.seg = Decimal(gone) /\ res.status = 404
        /\ \E kept \in Ids(todos) : kept > gone

\* C7: GET, PUT and DELETE on /todos/:id with an integer id no stored record
\* has answer 404 "Todo not found" and leave todos and nextId as they were.
C7_UnknownId ==
    [][ (IsGet(req') \/ IsPut(req') \/ IsDelete(req')) =>
          \A id \in 0..(nextId + 9) :
            (req'.seg = Decimal(id) /\ id \notin Ids(todos)) =>
              /\ res'.status = 404
              /\ res'.body.error = "Todo not found"
              /\ todos' = todos
              /\ nextId' = nextId ]_vars

\* C7 witness: a DELETE on an id never issued was answered 404 with records
\* in the store.
C7_Witness ==
    /\ IsDelete(req) /\ res.status = 404 /\ todos # <<>>
    /\ \E id \in 0..(nextId + 9) :
          req.seg = Decimal(id) /\ id \notin Range(issued)

\* C8: GET /todos/:id with the id of a stored record answers 200 with that
\* record; in particular a GET after a POST or PUT that returned a record
\* returns the record they returned.
C8_GetReturnsRecord ==
    [][ /\ \A k \in 1..Len(todos) :
             (IsGet(req') /\ req'.seg = Decimal(todos[k].id)) =>
               res'.status = 200 /\ res'.body.todo = <<todos[k]>>
        /\ ( /\ IsPost(req) \/ IsPut(req)
             /\ res.status \in {200, 201}
             /\ IsGet(req') /\ req'.seg = Decimal(res.body.todo[1].id) ) =>
               res'.status = 200 /\ res'.body.todo = res.body.todo ]_vars

\* C8 witness: a GET returned a stored record whose position in the list is
\* not its id, an earlier record having been deleted.
C8_Witness ==
    /\ IsGet(req) /\ res.status = 200
    /\ \E k \in 1..Len(todos) :
          res.body.todo = <<todos[k]>> /\ todos[k].id # k

\* C9: GET /todos answers 200 with the records created and not deleted, in
\* the order created, and count is the number of records returned.
C9_ListAll ==
    IsList(req) =>
        /\ res.status = 200
        /\ res.body.todos = todos
        /\ res.body.count = Len(res.body.todos)
        /\ [k \in 1..Len(res.body.todos) |-> res.body.todos[k].id]
             = SelectSeq(issued, LAMBDA id : id \notin removed)

\* C9 witness: a list of two records was returned.
C9_Witness ==
    IsList(req) /\ res.status = 200 /\ res.body.count >= 2

\* C10: every response carries an X-Correlation-ID header.
C10_AlwaysCorrelated ==
    res # NoResponse => \E h \in res.headers : h[1] = CorrelationHeader

\* C11: when a request supplies an X-Correlation-ID header, the response's
\* X-Correlation-ID header is the supplied value and every log entry of the
\* request carries it as correlationId.
C11_EchoSupplied ==
    Supplies(req) =>
        /\ ResponseId(res) = <<HeaderValue(req.headers)>>
        /\ \A k \in 1..Len(logged) :
              logged[k].cid = <<HeaderValue(req.headers)>>

\* C13: every POST /todos, whatever JSON value its title holds, ends in 201
\* with the created record or in 400 "Title is required".
C13_PostTwoOutcomes ==
    IsPost(req) =>
        \/ res.status = 201 /\ Len(res.body.todo) = 1
        \/ res.status = 400 /\ res.body.error = "Title is required"

\* C18: a request whose method and path match no route answers 404 "Route
\* not found" and leaves todos and nextId as they were.
C18_UnmatchedRoute ==
    [][ IsUnmatched(req') =>
          /\ res'.status = 404
          /\ res'.body.error = "Route not found"
          /\ todos' = todos
          /\ nextId' = nextId ]_vars

\* C18 witness: a DELETE /todos (a defined path, an undefined method for it)
\* was answered 404 with a record in the store.
C18_Witness ==
    /\ IsUnmatched(req) /\ req.method = "DELETE" /\ res.status = 404
    /\ todos # <<>>

C12_GeneratedIds ==
    [][ (~Supplies(req')) =>
          /\ ResponseId(res') # <<>>
          /\ ResponseId(res') # <<"">>
          /\ (req # NoRequest /\ ~Supplies(req)) =>
                ResponseId(res') # ResponseId(res) ]_vars

\* C15: for every request that was answered, http_requests_total was
\* incremented once with the request's method, path and final status,
\* http_request_duration_seconds was observed once, and one 'HTTP Request'
\* entry carrying the response's correlation id was logged.
C15_ObservedOnce ==
    req # NoRequest =>
        /\ Cardinality({ k \in 1..Len(observed) :
                           observed[k] = CounterInc(req, res.status) }) = 1
        /\ Cardinality({ k \in 1..Len(observed) :
                           observed[k].metric = "http_requests_total" }) = 1
        /\ Cardinality({ k \in 1..Len(observed) :
                           observed[k] = DurationObserve(req) }) = 1
        /\ Cardinality({ k \in 1..Len(observed) :
                           observed[k].metric
                             = "http_request_duration_seconds" }) = 1
        /\ Cardinality({ k \in 1..Len(logged) :
                           logged[k].msg = "HTTP Request" }) = 1
        /\ \A k \in 1..Len(logged) :
              logged[k].msg = "HTTP Request" =>
                  /\ logged[k].cid # <<>>
                  /\ logged[k].cid = ResponseId(res)

\* C17: the completed member of every stored record is a boolean.
C17_CompletedBoolean ==
    \A k \in 1..Len(todos) : todos[k].completed.t = "boolean"

\* C16: with requests in flight together, a /metrics request suspended at
\* its await and 'finish' callbacks pending, every step that dispatches a
\* request leaves the store and returns the response that request alone
\* would on the store as it stands, every other step leaves todos and
\* nextId untouched, no id is issued twice and no record deleted with 200
\* is in the list: the run equals the serial run in dispatch order.
C16_Serializable ==
    /\ [](\A i, j \in 1..Len(issued) : i # j => issued[i] # issued[j])
    /\ [](removed \cap Ids(todos) = {})
    /\ [][ IF Dispatched
           THEN SerialStep(req', todos, nextId, todos', nextId', res')
           ELSE todos' = todos /\ nextId' = nextId ]_vars

\* C16 witness: a PUT was answered 200 while a /metrics request that
\* arrived before it was still suspended at its await.
C16_Witness ==
    /\ IsPut(req) /\ res.status = 200
    /\ InStage(conns, "awaiting") = 1
    /\ InStage(conns, "answered") = 1
    /\ todos # <<>> /\ todos[1].completed = Bool(TRUE)

\* C19: once the SIGTERM listener has run the process has exited, and no
\* step is taken by a process that is not running: no request arrives, is
\* dispatched or answered after the signal.
C19_SigtermExits ==
    /\ [](SigtermLogged => proc = "exited")
    /\ [][proc = "running"]_vars

\* C19 witness: the process exited on SIGTERM with a request accepted and
\* another one answered whose 'finish' callback had not run.
C19_Witness ==
    /\ proc = "exited" /\ SigtermLogged
    /\ InStage(conns, "accepted") = 1
    /\ InStage(conns, "answered") = 1

\* C14: every request that was answered got one of the statuses 200, 201,
\* 400, 404 and 500, and a 500 comes with an error entry in the log that
\* carries the request's correlation id.
C14_FaultsAnswered ==
    req # NoRequest =>
        /\ res.status \in {200, 201, 400, 404, 500}
        /\ res.status = 500 =>
             \E k \in 1..Len(logged) :
                 /\ logged[k].level = "error"
                 /\ logged[k].cid # <<>>
                 /\ HeaderValue(req.headers) # "" =>
                      logged[k].cid = <<HeaderValue(req.headers)>>

\* seg is a decimal integer: one or more characters, each a decimal digit.
IsDecimal(seg) ==
    /\ seg # <<>>
    /\ \A k \in 1..Len(seg) :
          seg[k] \in {"0", "1", "2", "3", "4", "5", "6", "7", "8", "9"}

\* C21: a GET, PUT or DELETE on /todos/:id whose :id segment is not a
\* decimal integer answers 404 and leaves the list as it was: it reads,
\* updates and deletes no record.
C21_NonDecimalMisses ==
    [][ ((IsGet(req') \/ IsPut(req') \/ IsDelete(req'))
            /\ ~IsDecimal(req'.seg)) =>
          /\ res'.status = 404
          /\ res'.body.todo = <<>>
          /\ todos' = todos ]_vars

\* C22: the records of the list are in strictly increasing id order, every
\* id is at least 1 and less than nextId, and nextId is 1 plus the number
\* of POST requests answered 201: it starts at 1, a step that answers a
\* POST with 201 raises it by one and no other step changes it.
C22_CounterAndOrder ==
    /\ [](\A i, j \in 1..Len(todos) : i < j => todos[i].id < todos[j].id)
    /\ [](\A k \in 1..Len(todos) : todos[k].id >= 1 /\ todos[k].id < nextId)
    /\ [](nextId = 1 + Len(issued))
    /\ [][ nextId' = nextId
                     + (IF IsPost(req') /\ res'.status = 201 THEN 1 ELSE 0)
         ]_vars

\* C22 witness: after two POSTs answered 201 and the delete of the first
\* record, a POST was answered 400; the list holds record 2 alone and the
\* counter is 3.
C22_Witness ==
    /\ IsPost(req) /\ res.status = 400
    /\ nextId = 3
    /\ Len(todos) = 1 /\ todos[1].id = 2
    /\ removed = {1}

====
